---- MODULE Spec2Model ----
(***************************************************************************)
(* A model of src/src/vec.rs: the growable vector Vec<T> (a raw buffer, a  *)
(* capacity and a length), its consuming double-ended iterator IntoIter<T> *)
(* and the two destructors.  Elements are values of a type T that owns a   *)
(* resource: every element stored is a fresh identity 1, 2, 3, ... so that *)
(* moving an element out and destroying it can be counted per element.     *)
(* Machine words are WordBits wide; pointers are (block, byte offset).     *)
(***************************************************************************)
EXTENDS Integers, Sequences, FiniteSets

\* ---------------------------------------------------------------- bounds
\* Elements created during one run (values handed to push / insert / v[i] = x).
MaxElems == 3
\* Indices handed to insert / remove / v[i] range over 0 .. MaxIndex.
MaxIndex == 4
\* Elements pushed where only the growth of the buffer is followed.
MaxPushes == 5
\* Cell values created by Cell::new and clone together.
MaxCells == 4

\* Width of usize / isize in bits (isize::MAX = 2^(WordBits-1) - 1): the model's
\* machine has short words, so that the limits of the arithmetic are near.
WordBits == 5

\* ------------------------------------------------------ program constants
\* mem::size_of::<T>() in bytes; Vec::new asserts it is not 0.
ElemSize == 2

UsizeMod == 2 ^ WordBits
IsizeMax == 2 ^ (WordBits - 1) - 1

\* The result "no element" (Option::None) and the content of a slot that was
\* never written (uninitialized memory).
None == 0
Uninit == -1
\* NonNull::dangling(): the pointer of a Vec that owns no allocation.
Dangling == 0

Elems == 1 .. MaxElems
Indices == 0 .. MaxIndex

VARIABLES
    vecSt,      \* the Vec value: "live", "dropping" (inside Drop::drop), "dropped", "forgotten"
    iterSt,     \* the IntoIter value: "none", "live", "dropping", "dropped"
    aborted,    \* TRUE once an assert! / expect has failed: the process is gone
    pointer,    \* Vec.pointer: a block of the heap, or Dangling
    capacity,   \* Vec.capacity
    length,     \* Vec.length
    buffer,     \* IntoIter.buffer
    icapacity,  \* IntoIter.capacity
    start,      \* IntoIter.start, as a byte offset from buffer
    end,        \* IntoIter.end, as a byte offset from buffer
    heap,       \* the allocator's live blocks: block -> size in bytes
    mem,        \* the slots of the block the owner points to (slot k is mem[k+1])
    nextBlock,  \* the next fresh block address
    nextElem,   \* the next fresh element
    ret,        \* the last call and what it returned
    releases,   \* log of the calls of alloc::dealloc: <<who, block, bytes>>
    stored,     \* elements ever written into the container
    movedOut,   \* element -> times it was returned to the caller
    destroyed,  \* element -> times its destructor ran
    pushes,     \* number of completed push calls
    popsSome,   \* number of pop calls by the caller that returned Some
    snap,       \* the contents e[0..n) at the moment of into_iter
    nexts,      \* number of next calls by the caller that returned Some
    backs,      \* number of next_back calls by the caller that returned Some
    init,       \* the slots of the buffer that hold a live (initialized) value
    fault,      \* TRUE once a slot was misused: read or moved out while not live,
                \* overwritten while live, or touched outside a live block
    grows,      \* number of completed calls of grow
    maxLen,     \* the largest length the container has had
    cellSt,     \* each Cell value: "none" (not created), "live", "gone" (consumed)
    cellData,   \* Cell.data of each Cell value: a block of the heap
    cellHeap,   \* the blocks allocated by Cell::new that are live
    cellFrees,  \* block -> number of calls of alloc::dealloc on it
    cellFault,  \* TRUE once a value was read through a pointer to a released block
    cellAborted, \* TRUE once Cell::new panicked or the allocator aborted the process
    nextCell    \* the next fresh Cell value; Cell::new names its block after it

vecVars == <<pointer, capacity, length>>
iterVars == <<buffer, icapacity, start, end>>
heapVars == <<heap, mem, nextBlock>>
ghostVars == <<stored, movedOut, destroyed, pushes, popsSome, snap, nexts, backs>>
slotVars == <<init, fault>>
growVars == <<grows, maxLen>>
cellVars == <<cellSt, cellData, cellHeap, cellFrees, cellFault, cellAborted, nextCell>>
containerVars == <<vecSt, iterSt, aborted, vecVars, iterVars, heapVars, nextElem, ret,
                   releases, ghostVars, slotVars, growVars>>
vars == <<containerVars, cellVars>>

\* ------------------------------------------------------------ raw memory
\* ptr::write(p.add(k), x): slot k of the block takes x, nothing is dropped.
PtrWrite(m, k, x) == [m EXCEPT ![k + 1] = x]

\* ptr::read(p.add(k)): a bitwise copy of slot k; the slot keeps its bits.
PtrRead(m, k) == m[k + 1]

\* ptr::copy(p.add(src), p.add(dst), n): memmove of n slots, overlap allowed.
PtrCopy(m, src, dst, n) ==
    [j \in 1 .. Len(m) |->
        IF dst < j /\ j <= dst + n THEN m[j - dst + src] ELSE m[j]]

\* alloc::dealloc(block, layout): the block leaves the allocator's live set.
Dealloc(h, blk) == [b \in (DOMAIN h) \ {blk} |-> h[b]]

\* alloc::alloc / alloc::realloc on success: block blk is live with `bytes`
\* bytes; a block that realloc moved away from is released by the allocator.
Realloc(h, old, blk, bytes) ==
    [b \in ((DOMAIN h) \ {old}) \cup {blk} |-> IF b = blk THEN bytes ELSE h[b]]

\* The slots of a block of `bytes` bytes that took over the slots of m: the
\* common prefix is preserved, the rest is uninitialized.
Resized(m, bytes) ==
    [j \in 1 .. (bytes \div ElemSize) |-> IF j <= Len(m) THEN m[j] ELSE Uninit]

\* ------------------------------------------------- which slots are live
\* The set I of live slots after ptr::write into slot k, after a value was
\* moved out of slot k by ptr::read, and after ptr::copy moved n slots.
Written(I, k) == I \cup {k}
MovedOut(I, k) == I \ {k}
Copied(I, src, dst, n) ==
    (I \ ((src .. src + n - 1) \cup (dst .. dst + n - 1)))
        \cup {dst + j : j \in {i \in 0 .. n - 1 : src + i \in I}}

\* Misuse of a block of `slots` slots: a write over a live value (which is
\* then never destroyed) or outside the block; a read of a slot that is not
\* live or outside the block; a copy that does either.
WriteFault(I, k, slots) == k \in I \/ k \notin 0 .. slots - 1
ReadFault(I, k, slots) == k \notin I \/ k \notin 0 .. slots - 1
CopyFault(I, src, dst, n, slots) ==
    \E j \in 0 .. n - 1 :
        \/ src + j \notin I
        \/ src + j \notin 0 .. slots - 1
        \/ dst + j \notin 0 .. slots - 1
        \/ dst + j \in I /\ dst + j \notin src .. src + n - 1

\* The slots of the block the Vec points to: none when it is not a live block.
Slots(s) ==
    IF s.pointer \in DOMAIN s.heap THEN s.heap[s.pointer] \div ElemSize ELSE 0

\* ------------------------------------------------------------------- Vec
\* Vec::new(): no allocation, capacity 0, length 0.
New ==
    [pointer |-> Dangling, capacity |-> 0, length |-> 0]

\* Faulty variant of new_cap: one more slot instead of twice as many.
NewCapOneMore(cap) == (cap + 1) % UsizeMod

\* grow: new_cap (1 from empty, else capacity * 2 in usize arithmetic).
NewCap(cap) == IF cap = 0 THEN 1 ELSE (cap * 2) % UsizeMod

\* grow: old_num_bytes = capacity * elem_size in usize arithmetic.
OldNumBytes(cap) == (cap * ElemSize) % UsizeMod

\* Faulty variant of the assert: the bound is isize::MAX, not half of it.
GrowAssertNoHalf(cap) == OldNumBytes(cap) <= IsizeMax

\* grow: assert!(old_num_bytes <= isize::MAX / 2).
GrowAssert(cap) == OldNumBytes(cap) <= IsizeMax \div 2

\* grow: the byte size requested from the allocator.
NewNumBytes(cap) ==
    IF cap = 0 THEN ElemSize ELSE (OldNumBytes(cap) * 2) % UsizeMod

\* Faulty variant of grow: the capacity is updated before the null check.
GrowCapBeforeCheck(s, a) ==
    IF s.capacity # 0 /\ ~GrowAssert(s.capacity)
    THEN [s EXCEPT !.panic = "too many things"]
    ELSE IF ~a.ok
    THEN [s EXCEPT !.panic = "Out of memory in Vec reallocate",
                   !.capacity = NewCap(s.capacity)]
    ELSE LET bytes == NewNumBytes(s.capacity)
             blk == IF s.capacity # 0 /\ ~a.moved THEN s.pointer ELSE s.nextBlock
         IN [s EXCEPT !.pointer = blk,
                      !.capacity = NewCap(s.capacity),
                      !.heap = Realloc(s.heap, s.pointer, blk, bytes),
                      !.mem = Resized(s.mem, bytes),
                      !.nextBlock = IF blk = s.nextBlock THEN s.nextBlock + 1
                                    ELSE s.nextBlock]

\* Vec::grow on the machine state s (the Vec's fields, the heap, the slots of
\* the Vec's block), with the allocator's answer a: a.ok = FALSE is a null
\* pointer, a.moved tells whether realloc returned a new address.
Grow(s, a) ==
    IF s.capacity # 0 /\ ~GrowAssert(s.capacity)
    THEN [s EXCEPT !.panic = "too many things"]
    ELSE IF ~a.ok
    THEN [s EXCEPT !.panic = "Out of memory in Vec reallocate"]
    ELSE LET bytes == NewNumBytes(s.capacity)
             blk == IF s.capacity # 0 /\ ~a.moved THEN s.pointer ELSE s.nextBlock
         IN [s EXCEPT !.pointer = blk,
                      !.capacity = NewCap(s.capacity),
                      !.heap = Realloc(s.heap, s.pointer, blk, bytes),
                      !.mem = Resized(s.mem, bytes),
                      !.nextBlock = IF blk = s.nextBlock THEN s.nextBlock + 1
                                    ELSE s.nextBlock,
                      !.grows = s.grows + 1]

\* Faulty variant of push: the buffer grows one element before it is full.
PushOpEagerGrow(s, element, a) ==
    LET g == IF s.length + 1 >= s.capacity THEN Grow(s, a) ELSE s
    IN IF g.panic # "" THEN g
       ELSE [g EXCEPT !.mem = PtrWrite(g.mem, g.length, element),
                      !.fault = g.fault \/ WriteFault(g.init, g.length, Slots(g)),
                      !.init = Written(g.init, g.length),
                      !.length = g.length + 1]

\* Vec::push(element).
PushOp(s, element, a) ==
    LET g == IF s.length = s.capacity THEN Grow(s, a) ELSE s
    IN IF g.panic # "" THEN g
       ELSE [g EXCEPT !.mem = PtrWrite(g.mem, g.length, element),
                      !.fault = g.fault \/ WriteFault(g.init, g.length, Slots(g)),
                      !.init = Written(g.init, g.length),
                      !.length = g.length + 1]

\* Faulty variant of pop: the value is read from the front of the buffer.
PopOpFront(s) ==
    IF s.length = 0
    THEN [s EXCEPT !.out = None]
    ELSE [s EXCEPT !.length = s.length - 1,
                   !.out = PtrRead(s.mem, 0)]

\* Faulty variant of pop: the length is not decremented.
PopOpKeepsLength(s) ==
    IF s.length = 0
    THEN [s EXCEPT !.out = None]
    ELSE [s EXCEPT !.out = PtrRead(s.mem, s.length - 1),
                   !.fault = s.fault \/ ReadFault(s.init, s.length - 1, Slots(s)),
                   !.init = MovedOut(s.init, s.length - 1)]

\* Vec::pop(): out is the Option returned.
PopOp(s) ==
    IF s.length = 0
    THEN [s EXCEPT !.out = None]
    ELSE [s EXCEPT !.length = s.length - 1,
                   !.out = PtrRead(s.mem, s.length - 1),
                   !.fault = s.fault \/ ReadFault(s.init, s.length - 1, Slots(s)),
                   !.init = MovedOut(s.init, s.length - 1)]

\* Vec::length().
LengthOp(s) == [s EXCEPT !.out = s.length]

\* Faulty variant of insert: the tail is shifted one element short.
InsertOpShortShift(s, index, element, a) ==
    IF ~(index <= s.length)
    THEN [s EXCEPT !.panic = "index out of bounds"]
    ELSE LET g == IF s.length = s.capacity THEN Grow(s, a) ELSE s
         IN IF g.panic # "" THEN g
            ELSE LET shifted == IF index < g.length
                                THEN PtrCopy(g.mem, index, index + 1,
                                             g.length - index - 1)
                                ELSE g.mem
                 IN [g EXCEPT !.mem = PtrWrite(shifted, index, element),
                              !.length = g.length + 1]

\* Faulty variant of insert: the buffer grows before the index is checked.
InsertOpGrowFirst(s, index, element, a) ==
    LET g == IF s.length = s.capacity THEN Grow(s, a) ELSE s
    IN IF g.panic # "" THEN g
       ELSE IF ~(index <= g.length)
       THEN [g EXCEPT !.panic = "index out of bounds"]
       ELSE LET shifted == IF index < g.length
                           THEN PtrCopy(g.mem, index, index + 1, g.length - index)
                           ELSE g.mem
            IN [g EXCEPT !.mem = PtrWrite(shifted, index, element),
                         !.length = g.length + 1]

\* Faulty variant of insert: the tail is not shifted before the write.
InsertOpNoShift(s, index, element, a) ==
    IF ~(index <= s.length)
    THEN [s EXCEPT !.panic = "index out of bounds"]
    ELSE LET g == IF s.length = s.capacity THEN Grow(s, a) ELSE s
         IN IF g.panic # "" THEN g
            ELSE [g EXCEPT !.mem = PtrWrite(g.mem, index, element),
                           !.fault = g.fault \/ WriteFault(g.init, index, Slots(g)),
                           !.init = Written(g.init, index),
                           !.length = g.length + 1]

\* Vec::insert(index, element).
InsertOp(s, index, element, a) ==
    IF ~(index <= s.length)
    THEN [s EXCEPT !.panic = "index out of bounds"]
    ELSE LET g == IF s.length = s.capacity THEN Grow(s, a) ELSE s
         IN IF g.panic # "" THEN g
            ELSE LET n == g.length - index
                     shift == index < g.length
                     shifted == IF shift
                                THEN PtrCopy(g.mem, index, index + 1, g.length - index)
                                ELSE g.mem
                     I == IF shift THEN Copied(g.init, index, index + 1, n)
                          ELSE g.init
                 IN [g EXCEPT !.mem = PtrWrite(shifted, index, element),
                              !.fault = \/ g.fault
                                        \/ shift /\ CopyFault(g.init, index, index + 1,
                                                               n, Slots(g))
                                        \/ WriteFault(I, index, Slots(g)),
                              !.init = Written(I, index),
                              !.length = g.length + 1]

\* Faulty variant of remove: the length is not decremented.
RemoveOpKeepsLength(s, index) ==
    IF ~(index < s.length)
    THEN [s EXCEPT !.panic = "index out of bounds error"]
    ELSE LET len == s.length - 1
         IN [s EXCEPT !.out = PtrRead(s.mem, index),
                      !.mem = PtrCopy(s.mem, index + 1, index, len - index)]

\* Faulty variant of remove: the element is read after the tail was shifted over it.
RemoveOpReadAfterShift(s, index) ==
    IF ~(index < s.length)
    THEN [s EXCEPT !.panic = "index out of bounds error"]
    ELSE LET len == s.length - 1
             shifted == PtrCopy(s.mem, index + 1, index, len - index)
         IN [s EXCEPT !.length = len,
                      !.out = PtrRead(shifted, index),
                      !.mem = shifted]

\* Vec::remove(index): out is the element returned.
RemoveOp(s, index) ==
    IF ~(index < s.length)
    THEN [s EXCEPT !.panic = "index out of bounds error"]
    ELSE LET len == s.length - 1
             I == MovedOut(s.init, index)
         IN [s EXCEPT !.length = len,
                      !.out = PtrRead(s.mem, index),
                      !.mem = PtrCopy(s.mem, index + 1, index, len - index),
                      !.fault = \/ s.fault
                                \/ ReadFault(s.init, index, Slots(s))
                                \/ CopyFault(I, index + 1, index, len - index, Slots(s)),
                      !.init = Copied(I, index + 1, index, len - index)]

\* Faulty variant of deref: the view covers the whole buffer.
DerefLenCapacity(s) == s.capacity

\* Deref / DerefMut: slice::from_raw_parts(pointer, length), the view's length.
DerefLen(s) == s.length

\* v[index]: the slice's bounds check, then a read of the slot.
IndexReadOp(s, index) ==
    IF ~(index < DerefLen(s))
    THEN [s EXCEPT !.panic = "index out of bounds (slice)"]
    ELSE [s EXCEPT !.out = PtrRead(s.mem, index),
                   !.fault = s.fault \/ ReadFault(s.init, index, Slots(s))]

\* v[index] = element: the slice's bounds check, then the old value of the slot
\* is dropped in place (out) and the new one written.
IndexWriteOp(s, index, element) ==
    IF ~(index < DerefLen(s))
    THEN [s EXCEPT !.panic = "index out of bounds (slice)"]
    ELSE [s EXCEPT !.out = PtrRead(s.mem, index),
                   !.mem = PtrWrite(s.mem, index, element),
                   !.fault = s.fault \/ ReadFault(s.init, index, Slots(s))]

\* Faulty variant of into_iter: end is put at the end of the buffer.
IntoIterOpWholeBuffer(s) ==
    [buffer |-> s.pointer,
     capacity |-> s.capacity,
     start |-> 0,
     end |-> s.capacity * ElemSize,
     init |-> s.init,
     fault |-> s.fault]

\* Vec::into_iter(): the fields of the IntoIter built from the Vec's fields.
IntoIterOp(s) ==
    [buffer |-> s.pointer,
     capacity |-> s.capacity,
     start |-> 0,
     end |-> IF s.capacity = 0 THEN 0 ELSE s.length * ElemSize,
     init |-> s.init,
     fault |-> s.fault]

\* Faulty variant of into_iter: self is not forgotten, its destructor still runs.
SelfNotForgotten == "live"

\* Vec::into_iter(): mem::forget(self), so that Drop for Vec never runs on it.
SelfAfterIntoIter == "forgotten"

\* -------------------------------------------------------------- IntoIter
\* Faulty variant of next: the cursor advances by one byte, not by one element.
NextOpByteStep(it, m) ==
    IF it.start = it.end
    THEN [it EXCEPT !.out = None]
    ELSE [it EXCEPT !.out = PtrRead(m, it.start \div ElemSize),
                    !.start = it.start + 1]

\* Faulty variant of next: the cursor advances before the emptiness check.
NextOpAlwaysAdvance(it, m) ==
    IF it.start = it.end
    THEN [it EXCEPT !.out = None, !.start = it.start + ElemSize]
    ELSE [it EXCEPT !.out = PtrRead(m, it.start \div ElemSize),
                    !.start = it.start + ElemSize]

\* IntoIter::next() on the iterator fields it and the slots m.
NextOp(it, m) ==
    IF it.start = it.end
    THEN [it EXCEPT !.out = None]
    ELSE [it EXCEPT !.out = PtrRead(m, it.start \div ElemSize),
                    !.start = it.start + ElemSize,
                    !.fault = it.fault
                              \/ ReadFault(it.init, it.start \div ElemSize, it.slots),
                    !.init = MovedOut(it.init, it.start \div ElemSize)]

\* Faulty variant of size_hint: the byte distance is not divided by the size
\* of an element.
SizeHintOpBytes(it) ==
    LET len == (it.end - it.start) % UsizeMod
    IN [lower |-> len, upper |-> len]

\* IntoIter::size_hint(): (length, Some(length)) from the byte distance of the
\* cursors in usize arithmetic.
SizeHintOp(it) ==
    LET len == ((it.end - it.start) % UsizeMod) \div ElemSize
    IN [lower |-> len, upper |-> len]

\* IntoIter::next_back().
NextBackOp(it, m) ==
    IF it.start = it.end
    THEN [it EXCEPT !.out = None]
    ELSE LET k == (it.end - ElemSize) \div ElemSize
         IN [it EXCEPT !.end = it.end - ElemSize,
                       !.out = PtrRead(m, k),
                       !.fault = it.fault \/ ReadFault(it.init, k, it.slots),
                       !.init = MovedOut(it.init, k)]

\* Drop for Vec: the guard around the whole destructor.
VecDropGuard(cap) == cap # 0

\* Faulty variant of the destructor's loop: it ends before the first pop.
VecDropLoopStops(s) == TRUE

\* Drop for Vec: `while let Some(_) = self.pop() {}` ends when pop returns None.
VecDropLoopDone(s) == PopOp(s).out = None

\* Drop for Vec: num_bytes handed to dealloc.
VecDropNumBytes(cap) == (ElemSize * cap) % UsizeMod

\* Drop for IntoIter: the guard around the whole destructor.
IterDropGuard(cap) == cap # 0

\* Drop for IntoIter: `while self.start != self.end` ends when the cursors meet.
IterDropLoopDone(it) == it.start = it.end

\* Faulty variant of the iterator's num_bytes: a count of slots, not of bytes.
IterDropNumBytesSlots(cap) == cap % UsizeMod

\* Drop for IntoIter: num_bytes handed to dealloc.
IterDropNumBytes(cap) == (ElemSize * cap) % UsizeMod

\* ------------------------------------------------------------------ Cell
\* The Cell values and the blocks of Cell::new.
CellIds == 1 .. MaxCells

\* Cell::new(value): the block alloc returned (fresh), or a panic of
\* `NonNull::new(ptr).unwrap()` when alloc returned null.
CellNewOp(fresh, ok) ==
    IF ok THEN [data |-> fresh, panic |-> FALSE]
    ELSE [data |-> Dangling, panic |-> TRUE]

\* #[derive(Clone)]: the clone of a Cell is built from the clones of its
\* fields, and the clone of a NonNull<T> is the same pointer.
CellCloneOp(data) == [data |-> data]

\* alloc::dealloc(self.data) in Drop for Cell: the block leaves the live blocks.
CellDropOp(h, data) == h \ {data}

\* ------------------------------------------------------------ the machine
\* The answers the allocator can give to one request.
Allocs == [ok : BOOLEAN, moved : BOOLEAN]

\* The machine state the Vec's methods work on.
Cur ==
    [pointer |-> pointer, capacity |-> capacity, length |-> length,
     heap |-> heap, mem |-> mem, nextBlock |-> nextBlock,
     init |-> init, fault |-> fault, grows |-> grows,
     panic |-> "", out |-> None]

\* The IntoIter's fields.
CurIter ==
    [buffer |-> buffer, capacity |-> icapacity, start |-> start, end |-> end,
     init |-> init, fault |-> fault,
     slots |-> IF buffer \in DOMAIN heap THEN heap[buffer] \div ElemSize ELSE 0,
     out |-> None]

\* The live prefix of the container: slots [0, length).
Contents == [i \in 1 .. length |-> mem[i]]

Install(r) ==
    /\ pointer' = r.pointer
    /\ capacity' = r.capacity
    /\ length' = r.length
    /\ heap' = r.heap
    /\ mem' = r.mem
    /\ nextBlock' = r.nextBlock
    /\ init' = r.init
    /\ fault' = r.fault
    /\ grows' = r.grows
    /\ maxLen' = IF r.length > maxLen THEN r.length ELSE maxLen

InstallIter(it) ==
    /\ buffer' = it.buffer
    /\ icapacity' = it.capacity
    /\ start' = it.start
    /\ end' = it.end
    /\ init' = it.init
    /\ fault' = it.fault

Call(op, idx, val, out, panic) ==
    [op |-> op, idx |-> idx, val |-> val, out |-> out, panic |-> panic]

Bump(f, e) == IF e \in DOMAIN f THEN [f EXCEPT ![e] = @ + 1] ELSE f

\* The caller may use the container: it is live and the process has not aborted.
VecUsable == vecSt = "live" /\ iterSt = "none" /\ ~aborted
IterUsable == iterSt = "live" /\ ~aborted

Init ==
    /\ vecSt = "live"
    /\ iterSt = "none"
    /\ aborted = FALSE
    /\ pointer = New.pointer
    /\ capacity = New.capacity
    /\ length = New.length
    /\ buffer = Dangling
    /\ icapacity = 0
    /\ start = 0
    /\ end = 0
    /\ heap = <<>>
    /\ mem = <<>>
    /\ nextBlock = 1
    /\ nextElem = 1
    /\ ret = Call("new", -1, None, None, "")
    /\ releases = <<>>
    /\ stored = {}
    /\ movedOut = [e \in Elems |-> 0]
    /\ destroyed = [e \in Elems |-> 0]
    /\ pushes = 0
    /\ popsSome = 0
    /\ snap = <<>>
    /\ nexts = 0
    /\ backs = 0
    /\ init = {}
    /\ fault = FALSE
    /\ grows = 0
    /\ maxLen = 0
    /\ cellSt = [c \in CellIds |-> "none"]
    /\ cellData = [c \in CellIds |-> Dangling]
    /\ cellHeap = {}
    /\ cellFrees = [b \in CellIds |-> 0]
    /\ cellFault = FALSE
    /\ cellAborted = FALSE
    /\ nextCell = 1

\* v.push(nextElem)
PushCall ==
    /\ VecUsable
    /\ \E a \in Allocs :
        LET r == PushOp(Cur, nextElem, a) IN
        /\ Install(r)
        /\ aborted' = (r.panic # "")
        /\ ret' = Call("push", -1, nextElem, None, r.panic)
        /\ IF r.panic = ""
           THEN /\ nextElem' = nextElem + 1
                /\ stored' = stored \cup {nextElem}
                /\ pushes' = pushes + 1
           ELSE UNCHANGED <<nextElem, stored, pushes>>
    /\ UNCHANGED <<vecSt, iterSt, iterVars, releases, movedOut, destroyed,
                   popsSome, snap, nexts, backs>>
    /\ UNCHANGED cellVars

\* v.push(nextElem), while there are elements to push.
Push == nextElem <= MaxElems /\ PushCall

\* v.push(nextElem) for the growth of long containers.
PushMany == nextElem <= MaxPushes /\ PushCall

\* v.pop()
Pop ==
    /\ VecUsable
    /\ LET r == PopOp(Cur) IN
        /\ Install(r)
        /\ ret' = Call("pop", -1, None, r.out, "")
        /\ IF r.out # None
           THEN movedOut' = Bump(movedOut, r.out) /\ popsSome' = popsSome + 1
           ELSE UNCHANGED <<movedOut, popsSome>>
    /\ UNCHANGED <<vecSt, iterSt, aborted, iterVars, nextElem, releases, stored,
                   destroyed, pushes, snap, nexts, backs>>
    /\ UNCHANGED cellVars

\* v.length()
Length ==
    /\ VecUsable
    /\ LET r == LengthOp(Cur) IN
        /\ Install(r)
        /\ ret' = Call("length", -1, None, r.out, "")
    /\ UNCHANGED <<vecSt, iterSt, aborted, iterVars, nextElem, releases, ghostVars>>
    /\ UNCHANGED cellVars

\* v.insert(index, nextElem)
Insert ==
    /\ VecUsable
    /\ nextElem <= MaxElems
    /\ \E index \in Indices, a \in Allocs :
        LET r == InsertOp(Cur, index, nextElem, a) IN
        /\ Install(r)
        /\ aborted' = (r.panic # "")
        /\ ret' = Call("insert", index, nextElem, None, r.panic)
        /\ IF r.panic = ""
           THEN /\ nextElem' = nextElem + 1
                /\ stored' = stored \cup {nextElem}
           ELSE UNCHANGED <<nextElem, stored>>
    /\ UNCHANGED <<vecSt, iterSt, iterVars, releases, movedOut, destroyed,
                   pushes, popsSome, snap, nexts, backs>>
    /\ UNCHANGED cellVars

\* v.remove(index)
Remove ==
    /\ VecUsable
    /\ \E index \in Indices :
        LET r == RemoveOp(Cur, index) IN
        /\ Install(r)
        /\ aborted' = (r.panic # "")
        /\ ret' = Call("remove", index, None, r.out, r.panic)
        /\ IF r.panic = ""
           THEN movedOut' = Bump(movedOut, r.out)
           ELSE UNCHANGED movedOut
    /\ UNCHANGED <<vecSt, iterSt, iterVars, nextElem, releases, stored,
                   destroyed, pushes, popsSome, snap, nexts, backs>>
    /\ UNCHANGED cellVars

\* v[index]
IndexRead ==
    /\ VecUsable
    /\ \E index \in Indices :
        LET r == IndexReadOp(Cur, index) IN
        /\ Install(r)
        /\ aborted' = (r.panic # "")
        /\ ret' = Call("index", index, None, r.out, r.panic)
    /\ UNCHANGED <<vecSt, iterSt, iterVars, nextElem, releases, ghostVars>>
    /\ UNCHANGED cellVars

\* v[index] = nextElem
IndexWrite ==
    /\ VecUsable
    /\ nextElem <= MaxElems
    /\ \E index \in Indices :
        LET r == IndexWriteOp(Cur, index, nextElem) IN
        /\ Install(r)
        /\ aborted' = (r.panic # "")
        /\ ret' = Call("index_mut", index, nextElem, r.out, r.panic)
        /\ IF r.panic = ""
           THEN /\ nextElem' = nextElem + 1
                /\ stored' = stored \cup {nextElem}
                /\ destroyed' = Bump(destroyed, r.out)
           ELSE UNCHANGED <<nextElem, stored, destroyed>>
    /\ UNCHANGED <<vecSt, iterSt, iterVars, releases, movedOut, pushes,
                   popsSome, snap, nexts, backs>>
    /\ UNCHANGED cellVars

\* let iter = v.into_iter()
IntoIter ==
    /\ VecUsable
    /\ InstallIter(IntoIterOp(Cur))
    /\ vecSt' = SelfAfterIntoIter
    /\ iterSt' = "live"
    /\ snap' = Contents
    /\ ret' = Call("into_iter", -1, None, None, "")
    /\ UNCHANGED <<aborted, vecVars, growVars, heapVars, nextElem, releases, stored,
                   movedOut, destroyed, pushes, popsSome, nexts, backs>>
    /\ UNCHANGED cellVars

\* iter.next()
Next_ ==
    /\ IterUsable
    /\ LET r == NextOp(CurIter, mem) IN
        /\ InstallIter(r)
        /\ ret' = Call("next", -1, None, r.out, "")
        /\ IF r.out # None
           THEN movedOut' = Bump(movedOut, r.out) /\ nexts' = nexts + 1
           ELSE UNCHANGED <<movedOut, nexts>>
    /\ UNCHANGED <<vecSt, iterSt, aborted, vecVars, growVars, heapVars, nextElem, releases,
                   stored, destroyed, pushes, popsSome, snap, backs>>
    /\ UNCHANGED cellVars

\* iter.next_back()
NextBack ==
    /\ IterUsable
    /\ LET r == NextBackOp(CurIter, mem) IN
        /\ InstallIter(r)
        /\ ret' = Call("next_back", -1, None, r.out, "")
        /\ IF r.out # None
           THEN movedOut' = Bump(movedOut, r.out) /\ backs' = backs + 1
           ELSE UNCHANGED <<movedOut, backs>>
    /\ UNCHANGED <<vecSt, iterSt, aborted, vecVars, growVars, heapVars, nextElem, releases,
                   stored, destroyed, pushes, popsSome, snap, nexts>>
    /\ UNCHANGED cellVars

\* iter.size_hint(): val carries the upper bound, out the lower bound.
SizeHint ==
    /\ IterUsable
    /\ LET r == SizeHintOp(CurIter) IN
        ret' = Call("size_hint", -1, r.upper, r.lower, "")
    /\ UNCHANGED <<slotVars, vecSt, iterSt, aborted, vecVars, growVars, iterVars,
                   heapVars, nextElem, releases, ghostVars>>
    /\ UNCHANGED cellVars

\* Drop for Vec: entry, `if self.capacity != 0`.
VecDropBegin ==
    /\ vecSt = "live"
    /\ ~aborted
    /\ vecSt' = IF VecDropGuard(capacity) THEN "dropping" ELSE "dropped"
    /\ ret' = Call("drop_vec", -1, None, None, "")
    /\ UNCHANGED <<slotVars, iterSt, aborted, vecVars, growVars, iterVars, heapVars, nextElem,
                   releases, ghostVars>>
    /\ UNCHANGED cellVars

\* Drop for Vec: one turn of `while let Some(_) = self.pop() {}`.
VecDropPop ==
    /\ vecSt = "dropping"
    /\ ~VecDropLoopDone(Cur)
    /\ LET r == PopOp(Cur) IN
        /\ Install(r)
        /\ destroyed' = Bump(destroyed, r.out)
        /\ ret' = Call("drop_vec_pop", -1, None, r.out, "")
    /\ UNCHANGED <<vecSt, iterSt, aborted, iterVars, nextElem, releases, stored,
                   movedOut, pushes, popsSome, snap, nexts, backs>>
    /\ UNCHANGED cellVars

\* Drop for Vec: pop returned None, the loop ends and the buffer is released.
VecDropDealloc ==
    /\ vecSt = "dropping"
    /\ VecDropLoopDone(Cur)
    /\ heap' = Dealloc(heap, pointer)
    /\ releases' = Append(releases, <<"vec", pointer, VecDropNumBytes(capacity)>>)
    /\ vecSt' = "dropped"
    /\ ret' = Call("drop_vec_dealloc", -1, None, None, "")
    /\ UNCHANGED <<slotVars, iterSt, aborted, vecVars, growVars, iterVars, mem, nextBlock, nextElem,
                   ghostVars>>
    /\ UNCHANGED cellVars

\* Drop for IntoIter: entry, `if self.capacity != 0`.
IterDropBegin ==
    /\ iterSt = "live"
    /\ ~aborted
    /\ iterSt' = IF IterDropGuard(icapacity) THEN "dropping" ELSE "dropped"
    /\ ret' = Call("drop_iter", -1, None, None, "")
    /\ UNCHANGED <<slotVars, vecSt, aborted, vecVars, growVars, iterVars, heapVars, nextElem,
                   releases, ghostVars>>
    /\ UNCHANGED cellVars

\* Drop for IntoIter: one turn of `while self.start != self.end { self.next(); }`.
IterDropNext ==
    /\ iterSt = "dropping"
    /\ ~IterDropLoopDone(CurIter)
    /\ LET r == NextOp(CurIter, mem) IN
        /\ InstallIter(r)
        /\ destroyed' = Bump(destroyed, r.out)
        /\ ret' = Call("drop_iter_next", -1, None, r.out, "")
    /\ UNCHANGED <<vecSt, iterSt, aborted, vecVars, growVars, heapVars, nextElem, releases,
                   stored, movedOut, pushes, popsSome, snap, nexts, backs>>
    /\ UNCHANGED cellVars

\* Drop for IntoIter: the loop has ended and the buffer is released.
IterDropDealloc ==
    /\ iterSt = "dropping"
    /\ IterDropLoopDone(CurIter)
    /\ heap' = Dealloc(heap, buffer)
    /\ releases' = Append(releases, <<"iter", buffer, IterDropNumBytes(icapacity)>>)
    /\ iterSt' = "dropped"
    /\ ret' = Call("drop_iter_dealloc", -1, None, None, "")
    /\ UNCHANGED <<slotVars, vecSt, aborted, vecVars, growVars, iterVars, mem, nextBlock, nextElem,
                   ghostVars>>
    /\ UNCHANGED cellVars

Next ==
    \/ Push
    \/ Pop
    \/ Length
    \/ Insert
    \/ Remove
    \/ IndexRead
    \/ IndexWrite
    \/ IntoIter
    \/ Next_
    \/ NextBack
    \/ SizeHint
    \/ VecDropBegin
    \/ VecDropPop
    \/ VecDropDealloc
    \/ IterDropBegin
    \/ IterDropNext
    \/ IterDropDealloc

Spec == Init /\ [][Next]_vars

\* The container used as a stack only: push, pop and length.
StackNext ==
    \/ Push
    \/ Pop
    \/ Length

SpecStack == Init /\ [][StackNext]_vars

\* The container pushed to the limit of its growth.
GrowNext ==
    \/ PushMany
    \/ Pop
    \/ Length

SpecGrow == Init /\ [][GrowNext]_vars

\* let c = Cell::new(value)
CellNew ==
    /\ ~cellAborted
    /\ nextCell <= MaxCells
    /\ \E ok \in BOOLEAN :
        LET r == CellNewOp(nextCell, ok) IN
        IF r.panic
        THEN /\ cellAborted' = TRUE
             /\ UNCHANGED <<cellSt, cellData, cellHeap, cellFrees, cellFault, nextCell>>
        ELSE /\ cellSt' = [cellSt EXCEPT ![nextCell] = "live"]
             /\ cellData' = [cellData EXCEPT ![nextCell] = r.data]
             /\ cellHeap' = cellHeap \cup {r.data}
             /\ nextCell' = nextCell + 1
             /\ UNCHANGED <<cellFrees, cellFault, cellAborted>>
    /\ UNCHANGED containerVars

\* let d = c.clone()
CellClone ==
    /\ ~cellAborted
    /\ nextCell <= MaxCells
    /\ \E c \in CellIds :
        /\ cellSt[c] = "live"
        /\ cellSt' = [cellSt EXCEPT ![nextCell] = "live"]
        /\ cellData' = [cellData EXCEPT ![nextCell] = CellCloneOp(cellData[c]).data]
        /\ nextCell' = nextCell + 1
    /\ UNCHANGED <<cellHeap, cellFrees, cellFault, cellAborted>>
    /\ UNCHANGED containerVars

\* drop(c): Drop for Cell releases the block self.data points to. Releasing a
\* block that is not live is undefined: the allocator may abort the process or
\* go on.
CellDrop ==
    /\ ~cellAborted
    /\ \E c \in CellIds :
        /\ cellSt[c] = "live"
        /\ cellSt' = [cellSt EXCEPT ![c] = "gone"]
        /\ cellFrees' = [cellFrees EXCEPT ![cellData[c]] = @ + 1]
        /\ cellHeap' = CellDropOp(cellHeap, cellData[c])
        /\ cellAborted' \in (IF cellData[c] \in cellHeap THEN {FALSE} ELSE BOOLEAN)
    /\ UNCHANGED <<cellData, cellFault, nextCell>>
    /\ UNCHANGED containerVars

\* c.take(): ptr::read through self.data, then self goes out of scope and
\* Drop for Cell runs.
CellTake ==
    /\ ~cellAborted
    /\ \E c \in CellIds :
        /\ cellSt[c] = "live"
        /\ cellFault' = (cellFault \/ cellData[c] \notin cellHeap)
        /\ cellSt' = [cellSt EXCEPT ![c] = "gone"]
        /\ cellFrees' = [cellFrees EXCEPT ![cellData[c]] = @ + 1]
        /\ cellHeap' = CellDropOp(cellHeap, cellData[c])
        /\ cellAborted' \in (IF cellData[c] \in cellHeap THEN {FALSE} ELSE BOOLEAN)
    /\ UNCHANGED <<cellData, nextCell>>
    /\ UNCHANGED containerVars

CellNext ==
    \/ CellNew
    \/ CellClone
    \/ CellDrop
    \/ CellTake

SpecCell == Init /\ [][CellNext]_vars

\* The life of a container and of its iterator up to their destruction. A
\* destructor is a sequential loop that runs to its end once entered: each of
\* its steps is taken when it stays enabled.
DropNext ==
    \/ Push
    \/ Pop
    \/ IntoIter
    \/ Next_
    \/ NextBack
    \/ VecDropBegin
    \/ VecDropPop
    \/ VecDropDealloc
    \/ IterDropBegin
    \/ IterDropNext
    \/ IterDropDealloc

SpecDrop ==
    /\ Init
    /\ [][DropNext]_vars
    /\ WF_vars(VecDropPop)
    /\ WF_vars(VecDropDealloc)
    /\ WF_vars(IterDropNext)
    /\ WF_vars(IterDropDealloc)

\* ================================================================ claims
\* Helpers of the claims' statements.
MaxOf(S) == CHOOSE x \in S : \A y \in S : y <= x
\* Elements pushed and not yet returned to the caller.
OnStack == {e \in stored : movedOut[e] = 0}
\* The container's fields and everything they own.
ContainerState == <<pointer, capacity, length, heap, mem>>
IteratorState == <<buffer, icapacity, start, end, heap, mem>>
Ghosts == <<stored, movedOut, destroyed>>
\* The sequence q with x put at 0-based position i / with position i taken out.
InsertAt(q, i, x) == SubSeq(q, 1, i) \o <<x>> \o SubSeq(q, i + 1, Len(q))
RemoveAt(q, i) == SubSeq(q, 1, i) \o SubSeq(q, i + 2, Len(q))
\* The owner of the buffer has been destroyed.
OwnerGone == vecSt = "dropped" \/ iterSt = "dropped"

\* C1: under push and pop alone the container is a LIFO stack: length is
\* the number of pushes minus the number of pops that returned an element (and
\* length() returns it), a pop on a non-empty container returns the element
\* pushed last among those not yet popped, and pop returns "no element"
\* exactly when length is 0.
C1_PopStep ==
    ret'.op = "pop" =>
        /\ (ret'.out = None) <=> (length = 0)
        /\ length # 0 => ret'.out = MaxOf(OnStack)
        /\ length # 0 => length' = length - 1
C1_Lifo ==
    /\ [](length = pushes - popsSome)
    /\ [](ret.op = "length" => ret.out = pushes - popsSome)
    /\ [][C1_PopStep]_vars

\* C1 witness: MaxElems pushes were followed by as many pops and one more,
\* which returned "no element".
C1_Witness ==
    /\ pushes = MaxElems
    /\ popsSome = MaxElems
    /\ ret.op = "pop"
    /\ ret.out = None
    /\ length = 0

\* C2: the buffer is released exactly once by the time its owner is
\* destroyed if the capacity is not 0 and never if it is 0, it is not released
\* before that, and once into_iter has run the container's destructor never
\* releases it; nothing is left allocated afterwards.
C2_ReleasedOnce ==
    /\ Len(releases) <= 1
    /\ OwnerGone => Len(releases) = (IF capacity # 0 THEN 1 ELSE 0)
    /\ OwnerGone => DOMAIN heap = {}
    /\ ~OwnerGone => releases = <<>>
    /\ iterSt # "none" => \A k \in 1 .. Len(releases) : releases[k][1] = "iter"
    /\ iterSt = "none" => \A k \in 1 .. Len(releases) : releases[k][1] = "vec"
    /\ \A k \in 1 .. Len(releases) : releases[k][2] = pointer

\* C2 witness: an iterator consumed from both ends, but not to the end, was
\* dropped and the buffer released.
C2_Witness ==
    /\ iterSt = "dropped"
    /\ nexts = 1
    /\ backs = 1
    /\ Len(snap) = 3
    /\ Len(releases) = 1

\* C3: an element stored in the container is never moved out twice, never
\* destroyed twice and never both; once the owner (container or iterator) has
\* been destroyed every element ever stored was moved out to the caller exactly
\* once or destroyed exactly once.
C3_ElementsAccounted ==
    /\ \A e \in Elems : movedOut[e] + destroyed[e] <= 1
    /\ \A e \in Elems \ stored : movedOut[e] + destroyed[e] = 0
    /\ OwnerGone => \A e \in stored : movedOut[e] + destroyed[e] = 1

\* C3 witness: a container that stored MaxElems elements was destroyed after
\* the caller had moved an element out; its destructor destroyed another.
C3_Witness ==
    /\ vecSt = "dropped"
    /\ stored = Elems
    /\ \E e \in stored : movedOut[e] = 1
    /\ \E e \in stored : destroyed[e] = 1 /\ ret.op = "drop_vec_dealloc"
    /\ Len(releases) = 1

\* C4: with e[0..n) the contents at into_iter, the k-th successful next
\* returns e[k-1], the k-th successful next_back returns e[n-k], exactly n
\* calls return an element and every later call returns "no element" (so an
\* iterator over an empty container is exhausted from the start).
C4_NextStep ==
    /\ ret'.op = "next" =>
          ret'.out = (IF nexts + backs < Len(snap) THEN snap[nexts + 1] ELSE None)
    /\ ret'.op = "next_back" =>
          ret'.out = (IF nexts + backs < Len(snap) THEN snap[Len(snap) - backs]
                      ELSE None)
C4_IterationOrder ==
    /\ [](nexts + backs <= Len(snap))
    /\ [](iterSt # "none" => Len(snap) = length)
    /\ [][C4_NextStep]_vars

\* C4 witness: an iterator over MaxElems elements was exhausted by calls from
\* both ends and the next call from the back returned "no element".
C4_Witness ==
    /\ iterSt = "live"
    /\ Len(snap) = MaxElems
    /\ nexts >= 1
    /\ backs >= 1
    /\ nexts + backs = Len(snap)
    /\ ret.op = "next_back"
    /\ ret.out = None

\* What a call leaves of the container: live prefix, length, capacity, failure.
Outcome(r) == <<[i \in 1 .. r.length |-> r.mem[i]], r.length, r.capacity, r.panic>>

\* C5: insert(i, v) with 0 <= i <= n on a container holding e[0..n) leaves
\* e[0..i), v, e[i..n) and length n + 1, growing or not; and insert(n, v) gives
\* the same contents, length and capacity as push(v).
C5_InsertStep ==
    (ret'.op = "insert" /\ ret'.panic = "") =>
        /\ ret'.idx <= length
        /\ Contents' = InsertAt(Contents, ret'.idx, ret'.val)
        /\ length' = length + 1
        /\ capacity' = (IF length = capacity THEN NewCap(capacity) ELSE capacity)
C5_InsertOrder ==
    /\ [][C5_InsertStep]_vars
    /\ [](VecUsable =>
            \A a \in Allocs :
                Outcome(InsertOp(Cur, length, nextElem, a))
                    = Outcome(PushOp(Cur, nextElem, a)))

\* C5 witness: the third element was inserted at index 1 of a full container
\* of two, which had to grow.
C5_Witness ==
    /\ ret.op = "insert"
    /\ ret.panic = ""
    /\ ret.idx = 1
    /\ ret.val = 3
    /\ length = 3
    /\ capacity = 4

\* C6: remove(i) with 0 <= i < n on a container holding e[0..n) returns
\* e[i] and leaves e[0..i), e[i+1..n) with length n - 1 and the capacity
\* unchanged.
C6_RemoveStep ==
    (ret'.op = "remove" /\ ret'.panic = "") =>
        /\ ret'.idx < length
        /\ ret'.out = Contents[ret'.idx + 1]
        /\ Contents' = RemoveAt(Contents, ret'.idx)
        /\ length' = length - 1
        /\ capacity' = capacity
        /\ pointer' = pointer
C6_RemoveOrder == [][C6_RemoveStep]_vars

\* C6 witness: the middle element of three was removed.
C6_Witness ==
    /\ ret.op = "remove"
    /\ ret.panic = ""
    /\ ret.idx = 1
    /\ length = 2
    /\ nextElem = 4

\* C7: insert(i, v) with i > length, remove(i) with i >= length and an
\* indexed read or write at i >= length are fatal and leave the length, the
\* capacity, the allocation and the stored elements as they were; a rejected
\* insert does not grow a full buffer.
C7_OutOfRange(op) ==
    \/ op.op = "insert" /\ op.idx > length
    \/ op.op = "remove" /\ op.idx >= length
    \/ op.op \in {"index", "index_mut"} /\ op.idx >= length
C7_RejectStep ==
    C7_OutOfRange(ret') =>
        /\ aborted'
        /\ ret'.panic # ""
        /\ UNCHANGED ContainerState
        /\ UNCHANGED Ghosts
C7_OutOfRangeFatal == [][C7_RejectStep]_vars

\* C7 witness: an insert beyond the length of a full container was rejected.
C7_Witness ==
    /\ aborted
    /\ ret.op = "insert"
    /\ ret.idx > length
    /\ length = capacity
    /\ capacity = 2

\* C8: the indexable view has exactly `length` elements: v[i] succeeds
\* exactly for i < length and reads the i-th element; v[i] = x replaces that
\* element alone, leaving the others, the length and the capacity unchanged,
\* and a following read of v[i] returns x.
C8_IndexStep ==
    /\ ret'.op \in {"index", "index_mut"} =>
          ((ret'.panic = "") <=> (ret'.idx < length))
    /\ (ret'.op = "index" /\ ret'.panic = "") =>
          /\ ret'.out = Contents[ret'.idx + 1]
          /\ UNCHANGED ContainerState
    /\ (ret'.op = "index_mut" /\ ret'.panic = "") =>
          /\ Contents' = [Contents EXCEPT ![ret'.idx + 1] = ret'.val]
          /\ ret'.out = Contents[ret'.idx + 1]
          /\ UNCHANGED <<pointer, capacity, length, heap>>
C8_View ==
    /\ [][C8_IndexStep]_vars
    /\ []((ret.op = "index_mut" /\ ret.panic = "") =>
            IndexReadOp(Cur, ret.idx).out = ret.val)

\* C8 witness: the only live element of a container with a spare slot was
\* overwritten through the view.
C8_Witness ==
    /\ ret.op = "index_mut"
    /\ ret.panic = ""
    /\ ret.idx = 0
    /\ length = 1
    /\ capacity = 2
    /\ mem[1] = ret.val

\* C9: pop on a container of length 0 and next or next_back on an iterator
\* with start = end return "no element" and change nothing, so that repeating
\* the call gives the same again.
C9_EmptyStep ==
    /\ (ret'.op = "pop" /\ length = 0) =>
          /\ ret'.out = None
          /\ UNCHANGED <<ContainerState, IteratorState, Ghosts, vecSt, iterSt, aborted>>
    /\ (ret'.op \in {"next", "next_back"} /\ start = end) =>
          /\ ret'.out = None
          /\ UNCHANGED <<ContainerState, IteratorState, Ghosts, vecSt, iterSt, aborted>>
C9_EmptyIdempotent ==
    /\ [][C9_EmptyStep]_vars
    /\ []((VecUsable /\ length = 0) => PopOp(Cur) = [Cur EXCEPT !.out = None])
    /\ []((IterUsable /\ start = end) =>
            /\ NextOp(CurIter, mem) = [CurIter EXCEPT !.out = None]
            /\ NextBackOp(CurIter, mem) = [CurIter EXCEPT !.out = None])

\* C9 witness: next on an iterator that was consumed to the end returned
\* "no element".
C9_Witness ==
    /\ iterSt = "live"
    /\ ret.op = "next"
    /\ ret.out = None
    /\ start = end
    /\ nexts + backs >= 2

\* C10: when push or insert has to grow and the allocator returns no
\* memory, the call is fatal and the length, the capacity, the allocation and
\* the stored elements are as before; the new value is not stored.
C10_FailStep ==
    (ret'.panic = "Out of memory in Vec reallocate") =>
        /\ ret'.op \in {"push", "insert"}
        /\ length = capacity
        /\ aborted'
        /\ UNCHANGED ContainerState
        /\ UNCHANGED Ghosts
        /\ \A i \in 1 .. Len(mem') : mem'[i] # ret'.val
C10_AllocFailure ==
    /\ [][C10_FailStep]_vars
    /\ []((VecUsable /\ length = capacity) =>
            \A a \in Allocs : ~a.ok =>
                /\ PushOp(Cur, nextElem, a).panic # ""
                /\ InsertOp(Cur, length, nextElem, a).panic # "")

\* C10 witness: an insert into a full container of two found no memory.
C10_Witness ==
    /\ aborted
    /\ ret.op = "insert"
    /\ ret.panic = "Out of memory in Vec reallocate"
    /\ length = 2
    /\ capacity = 2

\* C11: while the container lives, length <= capacity, the buffer has
\* capacity slots, exactly the slots [0, length) are live, so the slots
\* [length, capacity) are not, and no operation has written over a live slot
\* or read or moved out of a slot that is not live.
C11_SlotsLive ==
    (iterSt = "none" /\ vecSt \in {"live", "dropping"}) =>
        /\ ~fault
        /\ length <= capacity
        /\ init = 0 .. length - 1
        /\ Len(mem) = capacity
        /\ capacity # 0 => pointer \in DOMAIN heap
        /\ \A k \in init : mem[k + 1] \in stored

\* C11 witness: the first of three elements was removed; slot 2 still holds
\* the bits of the last element but is no longer live, slot 3 was never written.
C11_Witness ==
    /\ ret.op = "remove"
    /\ ret.idx = 0
    /\ capacity = 4
    /\ length = 2
    /\ init = {0, 1}
    /\ mem[3] = mem[2]
    /\ mem[4] = Uninit

\* The slots between the iterator's cursors.
Between == {k \in 0 .. Len(mem) : start <= k * ElemSize /\ k * ElemSize < end}

\* C12: while the iterator lives, start <= end, both cursors are within
\* [0, n] slots of the buffer (n the length at into_iter), the slots in
\* [start, end) are exactly the live ones and still hold their elements, and
\* every other element of the container was moved out to the caller (or, once
\* the destructor runs, destroyed by it).
C12_Cursors ==
    (iterSt \in {"live", "dropping"}) =>
        /\ ~fault
        /\ start <= end
        /\ 0 <= start
        /\ end <= Len(snap) * ElemSize
        /\ start % ElemSize = 0
        /\ end % ElemSize = 0
        /\ init = Between
        /\ \A i \in 1 .. Len(snap) :
              IF i - 1 \in Between
              THEN /\ mem[i] = snap[i]
                   /\ movedOut[snap[i]] = 0
                   /\ destroyed[snap[i]] = 0
              ELSE /\ movedOut[snap[i]] + destroyed[snap[i]] = 1
                   /\ iterSt = "live" => movedOut[snap[i]] = 1

\* C12 witness: of three elements the first and the last were taken, the
\* cursors enclose the middle one.
C12_Witness ==
    /\ iterSt = "live"
    /\ Len(snap) = 3
    /\ nexts = 1
    /\ backs = 1
    /\ start = ElemSize
    /\ end = 2 * ElemSize
    /\ init = {1}

\* C13: growth from a capacity c > 0 happens only when c * sizeof(T) is at
\* most isize::MAX / 2, and is otherwise fatal with the container unchanged;
\* so c * 2, c * sizeof(T) and the doubled byte size never wrap a machine
\* word and no request to the allocator exceeds isize::MAX.
C13_GrowStep ==
    /\ (grows' # grows /\ capacity # 0) =>
          /\ capacity * ElemSize <= IsizeMax \div 2
          /\ capacity * 2 < UsizeMod
          /\ capacity * ElemSize < UsizeMod
          /\ capacity * ElemSize * 2 < UsizeMod
          /\ capacity' = capacity * 2
          /\ heap'[pointer'] = capacity * ElemSize * 2
          /\ heap'[pointer'] <= IsizeMax
    /\ (ret'.panic = "too many things") =>
          /\ length = capacity
          /\ capacity # 0
          /\ capacity * ElemSize > IsizeMax \div 2
          /\ aborted'
          /\ UNCHANGED ContainerState
C13_GrowthBound ==
    /\ [][C13_GrowStep]_vars
    /\ [](capacity * ElemSize <= IsizeMax)
    /\ [](\A b \in DOMAIN heap : heap[b] <= IsizeMax)
    /\ []((VecUsable /\ length = capacity /\ capacity # 0
             /\ capacity * ElemSize > IsizeMax \div 2) =>
            \A a \in Allocs : PushOp(Cur, nextElem, a).panic = "too many things")

\* C13 witness: a push into a full container whose byte size is above half of
\* isize::MAX was refused.
C13_Witness ==
    /\ aborted
    /\ ret.op = "push"
    /\ ret.panic = "too many things"
    /\ length = capacity
    /\ capacity * ElemSize > IsizeMax \div 2
    /\ capacity * ElemSize <= IsizeMax

\* C14: capacity changes only through growth and growth happens only when
\* needed: a push or insert that stores its element changes capacity exactly
\* when length = capacity before the call, from 0 to 1 or from c to 2 * c;
\* every other call, and every call that ends in a fatal error, leaves
\* capacity as it was, so capacity never decreases.
C14_CapStep ==
    /\ capacity' # capacity =>
          /\ vecSt = "live"
          /\ ret'.op \in {"push", "insert"}
          /\ ret'.panic = ""
          /\ length = capacity
          /\ length' = length + 1
          /\ capacity' = IF capacity = 0 THEN 1 ELSE 2 * capacity
    /\ length' = length + 1 =>
          /\ ret'.op \in {"push", "insert"}
          /\ (capacity' # capacity) <=> (length = capacity)
    /\ (ret' # ret /\ ret'.op \in {"pop", "remove", "length", "index", "index_mut"}) =>
          capacity' = capacity
    /\ aborted' => capacity' = capacity
    /\ capacity' >= capacity
C14_CapacityFrame == [][C14_CapStep]_vars

\* C14 witness: an insert into a full buffer of two elements doubled it.
C14_Witness ==
    /\ ret.op = "insert"
    /\ ret.panic = ""
    /\ pushes = 2
    /\ length = 3
    /\ maxLen = 3
    /\ capacity = 4
    /\ grows = 3

\* C15: destruction is ordered: when the allocation is released every slot
\* the owner still held (slots [0, length) of the container, slots
\* [start, end) of the iterator) has been destroyed, each destructor step
\* destroys a slot that is live in a block that is live, and after the release
\* no slot is read, moved out of or destroyed.
C15_DropStep ==
    /\ releases' # releases =>
          /\ init = {}
          /\ \A e \in stored : movedOut[e] + destroyed[e] = 1
          /\ vecSt = "dropping" => length = 0
          /\ iterSt = "dropping" => start = end
    /\ (destroyed' # destroyed /\ "dropping" \in {vecSt, iterSt}) =>
          /\ releases = <<>>
          /\ init' \subseteq init
          /\ Cardinality(init') = Cardinality(init) - 1
          /\ vecSt = "dropping" => pointer \in DOMAIN heap
          /\ iterSt = "dropping" => buffer \in DOMAIN heap
    /\ releases # <<>> => UNCHANGED <<mem, init, movedOut, destroyed, fault>>
C15_DropOrder ==
    /\ [][C15_DropStep]_vars
    /\ [](OwnerGone => ~fault /\ init = {})

\* C15 witness: a container holding MaxElems elements was destroyed: all of
\* them were destroyed by its destructor, then the buffer was released.
C15_Witness ==
    /\ vecSt = "dropped"
    /\ ret.op = "drop_vec_dealloc"
    /\ stored = Elems
    /\ \A e \in Elems : destroyed[e] = 1
    /\ init = {}
    /\ Len(releases) = 1

\* C16: the iterator's remaining count is exact: after into_iter on a
\* container of n elements and next / next_back calls of which k returned an
\* element, size_hint returns (n - k, Some(n - k)), the slot distance between
\* the cursors, with both bounds equal, and 0 exactly when the iterator is
\* exhausted (every further next and next_back returns "no element").
C16_SizeHint ==
    ret.op = "size_hint" =>
        /\ ret.out = Len(snap) - nexts - backs
        /\ ret.val = ret.out
        /\ ret.out * ElemSize = end - start
        /\ ret.out = Cardinality(init)
        /\ (ret.out = 0) <=> (start = end)
        /\ (ret.out = 0) <=> (NextOp(CurIter, mem).out = None)
        /\ (ret.out = 0) <=> (NextBackOp(CurIter, mem).out = None)

\* C16 witness: of three elements one was taken from each end and size_hint
\* reports the one that remains.
C16_Witness ==
    /\ ret.op = "size_hint"
    /\ Len(snap) = 3
    /\ nexts = 1
    /\ backs = 1
    /\ ret.out = 1
    /\ ret.val = 1

\* C17: the size handed to the allocator with a block is the size that block
\* was allocated with: realloc is given capacity * sizeof(T) for the block the
\* last growth produced, the container's destructor releases
\* capacity * sizeof(T), and the iterator's destructor releases the capacity it
\* recorded at into_iter (the capacity of the buffer it took over, not the
\* length and not the number of remaining elements) times sizeof(T).
C17_AllocStep ==
    /\ (grows' # grows /\ capacity # 0) =>
          /\ pointer \in DOMAIN heap
          /\ OldNumBytes(capacity) = heap[pointer]
    /\ releases' # releases =>
          /\ Len(releases') = Len(releases) + 1
          /\ LET rel == releases'[Len(releases')] IN
                /\ rel[2] \in DOMAIN heap
                /\ rel[3] = heap[rel[2]]
                /\ rel[2] \notin DOMAIN heap'
                /\ rel[1] = "vec" => rel[3] = capacity * ElemSize
                /\ rel[1] = "iter" => rel[3] = icapacity * ElemSize
C17_SizesMatch ==
    /\ [][C17_AllocStep]_vars
    /\ []((vecSt \in {"live", "dropping"} /\ iterSt = "none" /\ capacity # 0) =>
            pointer \in DOMAIN heap /\ heap[pointer] = capacity * ElemSize)
    /\ []((iterSt \in {"live", "dropping"} /\ icapacity # 0) =>
            /\ buffer \in DOMAIN heap
            /\ heap[buffer] = icapacity * ElemSize)
    /\ [](iterSt # "none" => icapacity = capacity /\ buffer = pointer)

\* C17 witness: an iterator over three elements in a buffer of four slots was
\* dropped with two elements remaining and released the four slots.
C17_Witness ==
    /\ iterSt = "dropped"
    /\ Len(snap) = 3
    /\ nexts + backs = 1
    /\ icapacity = 4
    /\ releases = <<(<<"iter", buffer, 4 * ElemSize>>)>>

\* The smallest k with 2^k >= n, for n >= 1, and 2^k.
RECURSIVE CeilLog2(_)
CeilLog2(n) == IF n <= 1 THEN 0 ELSE 1 + CeilLog2((n + 1) \div 2)
PowerOfTwo(k) == 2 ^ k

\* C18: capacity is 0 as long as no element was ever stored and is otherwise
\* the smallest power of two that is at least the greatest length the
\* container has ever had; reaching length n from new() takes exactly
\* 1 + ceil(log2 n) growth steps (so n consecutive pushes do), and pops and
\* removes give no capacity back.
C18_CapacityShape ==
    /\ maxLen = 0 <=> stored = {}
    /\ maxLen = 0 => capacity = 0 /\ grows = 0
    /\ maxLen > 0 =>
          /\ capacity = PowerOfTwo(CeilLog2(maxLen))
          /\ capacity >= maxLen
          /\ capacity < 2 * maxLen
          /\ grows = 1 + CeilLog2(maxLen)
    /\ length <= maxLen
    /\ (pushes > 0 /\ pushes = Cardinality(stored) /\ length = pushes) =>
          grows = 1 + CeilLog2(pushes)

\* C18 witness: three elements were stored, two were taken out again, and
\* the capacity is still 4 after 3 growth steps.
C18_Witness ==
    /\ vecSt = "live"
    /\ maxLen = 3
    /\ length = 1
    /\ capacity = 4
    /\ grows = 3
    /\ ret.op \in {"pop", "remove"}

\* C19: destruction terminates. Each turn of the container's destructor
\* takes one element (length goes down by one, from n to 0: n turns) and the
\* release follows at length 0; each turn of the iterator's destructor moves
\* start one slot towards end (never past it: (end - start) slots, that many
\* turns) and the release follows at start = end; a destructor that was
\* entered always reaches its release.
C19_DropTurn ==
    /\ (vecSt = "dropping" /\ vecSt' = "dropping") =>
          /\ length > 0
          /\ length' = length - 1
          /\ Cardinality(init') = length'
    /\ (vecSt = "dropping" /\ vecSt' = "dropped") =>
          /\ length = 0
          /\ releases' # releases
    /\ (iterSt = "dropping" /\ iterSt' = "dropping") =>
          /\ start < end
          /\ start' = start + ElemSize
          /\ start' <= end
          /\ end' = end
          /\ Cardinality(init') * ElemSize = end' - start'
    /\ (iterSt = "dropping" /\ iterSt' = "dropped") =>
          /\ start = end
          /\ releases' # releases
C19_DropTerminates ==
    /\ [][C19_DropTurn]_vars
    /\ (vecSt = "dropping") ~> (vecSt = "dropped" /\ length = 0 /\ Len(releases) = 1)
    /\ (iterSt = "dropping") ~> (iterSt = "dropped" /\ start = end /\ Len(releases) = 1)

\* C19 witness: an iterator over three elements gave one from the back and
\* was dropped; its destructor took the two others and released the buffer.
C19_Witness ==
    /\ iterSt = "dropped"
    /\ Len(snap) = 3
    /\ nexts = 0
    /\ backs = 1
    /\ start = end
    /\ end = 2 * ElemSize
    /\ destroyed[snap[1]] = 1
    /\ destroyed[snap[2]] = 1
    /\ Len(releases) = 1

\* C20: for the single-slot box, after any sequence of Cell::new, clone, take
\* and drop no two live Cells own the same allocation, no allocation is
\* released twice, none is read through a Cell after its release, and once
\* every Cell is gone every allocation of Cell::new was released exactly once.
C20_CellsReleasedOnce ==
    /\ \A c, d \in CellIds :
          (c # d /\ cellSt[c] = "live" /\ cellSt[d] = "live") =>
              cellData[c] # cellData[d]
    /\ \A c \in CellIds : cellSt[c] = "live" => cellData[c] \in cellHeap
    /\ \A b \in CellIds : cellFrees[b] <= 1
    /\ ~cellFault
    /\ (\A c \in CellIds : cellSt[c] # "live") =>
          \A c \in CellIds :
              (cellSt[c] = "gone" /\ cellData[c] = c) => cellFrees[c] = 1

====
